---- MODULE Spec2Model ----
(***************************************************************************)
(* The OAuth2 token manager and the authenticated request sender of the    *)
(* Trakt client (src/src/main.ts, class Trakt), as a state machine.        *)
(* main.ts holds the class more than once; the model follows the first     *)
(* one (lines 134 to 1793), which is the one the README and the tests      *)
(* describe.                                                               *)
(*                                                                         *)
(* The client is one object with two private fields, settings and auth.    *)
(* Every public method is one action; a method that awaits an HTTP answer  *)
(* is two actions, the part before the await (which sends the request and  *)
(* leaves a record in inflight) and the continuation that runs when the    *)
(* server's answer arrives.  JavaScript runs each of these parts to        *)
(* completion, so each is one atomic step, and the parts of different      *)
(* calls interleave freely.                                                *)
(*                                                                         *)
(* Values: strings are TLA+ strings, with Undefined for a field that is    *)
(* not set; expires is an integer, with NoNumber for a field not set.      *)
(*                                                                         *)
(* Three specifications: Spec is the client constructed with client_id and *)
(* client_secret alone; SpecConfigured is the same client constructed with *)
(* a redirect URI and an api_url; SpecResources is the resource methods    *)
(* (search, calendars, shows), which build a request and change nothing.   *)
(***************************************************************************)
EXTENDS Integers, Sequences, FiniteSets, Bags, TLC

VARIABLES
    options,    \* the settings object the constructor was given
    settings,   \* this.settings
    auth,       \* this.auth
    nStates,    \* how many CSRF states crypto.randomBytes has drawn so far
    inflight,   \* the calls awaiting the server's answer: a bag of method names
    installed,  \* the tokens written by the latest token-installing step
    step        \* what the latest step was given, sent and returned

vars == <<options, settings, auth, nStates, inflight, installed, step>>

----------------------------------------------------------------------------
(* Bounds of the model. *)

MaxGetUrl == 2
MaxInFlight == 2

----------------------------------------------------------------------------
(* JavaScript values. *)

Undefined == "<undefined>"
NoNumber == -1

\* Truthiness of an optional string: undefined and "" are falsy.
TruthyStr(s) == s # Undefined /\ s # ""
\* Truthiness of an optional number: undefined and 0 are falsy.
TruthyNum(n) == n # NoNumber /\ n # 0

\* a || b on optional strings.
OrStr(a, b) == IF TruthyStr(a) THEN a ELSE b

\* The Auth type: four optional fields.
EmptyAuth ==
    [access_token |-> Undefined, refresh_token |-> Undefined,
     expires |-> NoNumber, state |-> Undefined]

----------------------------------------------------------------------------
(* URLs are sequences of lexical pieces, so that getUrl's regular          *)
(* expression can be computed on them.                                     *)

DefaultApiUrl == <<"https://", "api", ".", "trakt", ".", "tv">>
\* An api_url that is not set.
NoUrl == <<>>
DefaultRedirectUri == "urn:ietf:wg:oauth:2.0:oob"
UserAgent == "trakt.tv"

NonWordPieces == {".", "-", "/", ":", "https://"}

\* s without its pieces i .. i+n-1
Drop(s, i, n) ==
    [k \in 1..(Len(s) - n) |-> IF k < i THEN s[k] ELSE s[k + n]]

\* url.replace(/api\W/, ""): the first "api" that a non-word character
\* follows is removed together with that character.
StripApi(url) ==
    LET hits == {i \in 1..(Len(url) - 1) :
                    url[i] = "api" /\ url[i + 1] \in NonWordPieces}
    IN  IF hits = {} THEN url
        ELSE Drop(url, CHOOSE i \in hits : \A j \in hits : i <= j, 2)

----------------------------------------------------------------------------
(* The constructor. *)

ConstructSettings(s) ==
    [client_id |-> s.client_id,
     client_secret |-> s.client_secret,
     api_url |-> DefaultApiUrl,
     redirect_uri |-> OrStr(s.redirect_uri, DefaultRedirectUri),
     user_agent |-> UserAgent,
     pagination |-> FALSE]

----------------------------------------------------------------------------
(* Inputs: what callers pass and what the server answers. *)

\* Settings passed to the constructor.
SettingsArg(client_id) ==
    [client_id |-> client_id, client_secret |-> "secret",
     redirect_uri |-> Undefined, api_url |-> NoUrl]

\* A redirect URI without a query of its own, and one with two parameters.
PlainRedirectUri == "https://app.example/cb"
QueryRedirectUri == "https://app.example/cb?a=1&b=2"
\* An api_url override: https://api-staging.trakt.tv
StagingApiUrl == <<"https://", "api", "-", "staging", ".", "trakt", ".", "tv">>

\* Arguments of the constructor: settings alone, settings with an exported
\* session that has expired by the clock's last value, and settings with
\* an auth object that carries a CSRF state.
CtorArgs ==
    {<<SettingsArg("id1"), EmptyAuth>>,
     <<SettingsArg("id1"),
       [access_token |-> "a0", refresh_token |-> "r0",
        expires |-> 1, state |-> Undefined]>>,
     <<SettingsArg("id1"), [EmptyAuth EXCEPT !.state = "ctor-state"]>>}

\* Arguments of the constructor with the optional settings given: a
\* redirect URI and an api_url; a redirect URI that has a query.
ConfiguredCtorArgs ==
    {<<[SettingsArg("id1") EXCEPT !.redirect_uri = PlainRedirectUri,
                                  !.api_url = StagingApiUrl],
       EmptyAuth>>,
     <<[SettingsArg("id1") EXCEPT !.redirect_uri = QueryRedirectUri],
       EmptyAuth>>}

\* Values Date.now() returns.
Clock == {1, 2}

\* Tokens passed to importToken: every expiry around the clock's values,
\* and tokens that lack a field.
ImportTokens ==
    {[access_token |-> "a1", refresh_token |-> "r1", expires |-> e] :
        e \in {NoNumber, 0} \cup Clock}
    \cup {[access_token |-> Undefined, refresh_token |-> "r1",
           expires |-> NoNumber]}
    \cup {[access_token |-> "a1", refresh_token |-> Undefined,
           expires |-> NoNumber]}

Codes == {"code1", "code2"}

\* Successful answers of the token endpoints.
TokenResponses ==
    {[access_token |-> "A1", refresh_token |-> "R1", created_at |-> 1,
      expires_in |-> 1, token_type |-> "bearer", scope |-> "public"],
     [access_token |-> "A2", refresh_token |-> "R2", created_at |-> 1,
      expires_in |-> 2, token_type |-> "bearer", scope |-> "public"]}

StatusText(status) ==
    CASE status = 400 -> "Bad Request"
      [] status = 401 -> "Unauthorized"
      [] status = 404 -> "Not Found"
      [] status = 409 -> "Conflict"
      [] status = 410 -> "Gone"
      [] status = 418 -> "I'm a teapot"
      [] status = 429 -> "Too Many Requests"
      [] status = 500 -> "Internal Server Error"
      [] status = 503 -> "Service Unavailable"
      [] OTHER -> ""

\* A failure ky throws: an HTTPError carries the response, a network or
\* parse failure carries none.
HttpError(status) ==
    [response |-> TRUE, status |-> status, statusText |-> StatusText(status)]
NetworkError == [response |-> FALSE, status |-> 0, statusText |-> ""]

TokenFailures == {HttpError(401), NetworkError}
DeviceFailures ==
    {HttpError(s) : s \in {400, 404, 409, 410, 418, 429, 500, 503}}
    \cup {NetworkError}

\* Parameter objects: functions from parameter names to values; NoParams
\* is the default {} of _call.
NoParams == [k \in {} |-> ""]
Paths == {"/networks"}
\* An optional value: absent, or present with its value.
None == <<>>
Some(x) == <<x>>

\* The resource calls issued: every method, with parameters and with the
\* argument left out.
ApiCalls ==
    {<<"get", None>>, <<"get", Some([k \in {"extended"} |-> "full"])>>,
     <<"post", Some([k \in {"extended"} |-> "full"])>>, <<"put", None>>,
     <<"delete", Some([k \in {"extended"} |-> "full"])>>}

----------------------------------------------------------------------------
(* The latest step: the method; whether the step is the method's call or   *)
(* the continuation after the server's answer; how it ended ("pending" at  *)
(* an await, "returned", "resolved", "rejected", "thrown"); the call's     *)
(* arguments; the requests the step sent; the answer it consumed; the      *)
(* value or error it produced; and the auth it found.                      *)

Step(op, phase, outcome, arg, sent, answer, value) ==
    [op |-> op, phase |-> phase, outcome |-> outcome, arg |-> arg,
     sent |-> sent, answer |-> answer, value |-> value, before |-> auth]

\* The server's answers, as ky hands them on: a parsed body, or a throw.
Ok(data) == [ok |-> TRUE, data |-> data]
Failed(error) == [ok |-> FALSE, data |-> error]

\* History: the tokens that the latest token-installing step wrote (the
\* constructor, importToken's assignments, _exchange's assignments), and
\* whether a revokeToken has replaced this.auth since.
Installed(source, a) ==
    [source |-> source, access_token |-> a.access_token,
     refresh_token |-> a.refresh_token, expires |-> a.expires,
     cleared |-> FALSE]

----------------------------------------------------------------------------
(* Pure parts of the methods. *)

\* crypto.randomBytes(6).toString("hex"): the n-th draw; draws differ.
RandomState(n) == "state" \o ToString(n)

\* The pieces of a string at the characters that delimit a URL's query.
\* Of the strings the model draws, only QueryRedirectUri holds any.
Lex(s) ==
    IF s = QueryRedirectUri
    THEN <<"https://app.example/cb", "?", "a", "=", "1", "&", "b", "=", "2">>
    ELSE <<s>>

\* getUrl's return value: the template string, piece by piece.
AuthorizeUrl(s, a) ==
    StripApi(s.api_url)
    \o <<"/oauth/authorize", "?", "response_type", "=", "code",
         "&", "client_id", "=">>
    \o Lex(s.client_id)
    \o <<"&", "redirect_uri", "=">>
    \o Lex(OrStr(s.redirect_uri, DefaultRedirectUri))
    \o <<"&", "state", "=">>
    \o Lex(a.state)

\* A variant of the guard that checks a state only once one is stored.
CsrfRejectsOnlyWhenStored(state, a) ==
    TruthyStr(state) /\ TruthyStr(a.state) /\ state # a.state

\* A variant of the guard that asks for a state once one is stored.
CsrfRejectsMissingState(state, a) ==
    IF TruthyStr(state) THEN state # a.state ELSE TruthyStr(a.state)

\* exchangeCode's guard: state && state !== this.auth.state
CsrfRejects(state, a) == TruthyStr(state) /\ state # a.state

OAuthHeaders(s) ==
    [h \in {"User-Agent", "Content-Type"} |->
        IF h = "User-Agent" THEN s.user_agent ELSE "application/json"]

PostRequest(s, path, json) ==
    [method |-> "post", url |-> <<s.api_url, path>>,
     headers |-> OAuthHeaders(s), json |-> json]

ExchangeParams(s, code) ==
    [code |-> code, client_id |-> s.client_id,
     client_secret |-> s.client_secret,
     redirect_uri |-> OrStr(s.redirect_uri, DefaultRedirectUri),
     grant_type |-> "authorization_code"]

\* A variant that sends the access token in the place of the refresh token.
RefreshParamsSendsAccess(s, a) ==
    [refresh_token |-> a.access_token, client_id |-> s.client_id,
     client_secret |-> s.client_secret,
     redirect_uri |-> OrStr(s.redirect_uri, DefaultRedirectUri),
     grant_type |-> "refresh_token"]

\* refreshToken's parameters.
RefreshParams(s, a) ==
    [refresh_token |-> a.refresh_token, client_id |-> s.client_id,
     client_secret |-> s.client_secret,
     redirect_uri |-> OrStr(s.redirect_uri, DefaultRedirectUri),
     grant_type |-> "refresh_token"]

RevokeParams(s, a) ==
    [token |-> a.access_token, client_id |-> s.client_id,
     client_secret |-> s.client_secret]

\* A variant of the assignments that stores the access token and the
\* expiry and keeps the refresh token that was stored.
ExchangeStoreKeepsRefresh(a, response) ==
    [a EXCEPT !.access_token = response.access_token,
              !.expires = (response.created_at + response.expires_in) * 1000]

\* A variant of the assignments that also uses up the CSRF state.
ExchangeStoreConsumesState(a, response) ==
    [a EXCEPT !.refresh_token = response.refresh_token,
              !.access_token = response.access_token,
              !.expires = (response.created_at + response.expires_in) * 1000,
              !.state = Undefined]

\* A variant of the assignments that stores the expiry in seconds.
ExchangeStoreSeconds(a, response) ==
    [a EXCEPT !.refresh_token = response.refresh_token,
              !.access_token = response.access_token,
              !.expires = response.created_at + response.expires_in]

\* _exchange after the await: the three assignments.
ExchangeStore(a, response) ==
    [a EXCEPT !.refresh_token = response.refresh_token,
              !.access_token = response.access_token,
              !.expires = (response.created_at + response.expires_in) * 1000]

\* A variant of the assignments that keeps a stored value where the
\* token has none.
ImportAssignMerges(a, token) ==
    [a EXCEPT !.access_token = OrStr(token.access_token, a.access_token),
              !.expires = IF token.expires = NoNumber THEN a.expires
                          ELSE token.expires,
              !.refresh_token = OrStr(token.refresh_token, a.refresh_token)]

\* importToken's three assignments.
ImportAssign(a, token) ==
    [a EXCEPT !.access_token = token.access_token,
              !.expires = token.expires,
              !.refresh_token = token.refresh_token]

\* A variant of the test that takes a token expiring now for expired.
ImportNeedsRefreshAtExpiry(token, now) ==
    TruthyNum(token.expires) /\ token.expires <= now

\* importToken's test: token.expires && token.expires < Date.now()
ImportNeedsRefresh(token, now) ==
    TruthyNum(token.expires) /\ token.expires < now

\* A variant of exportToken that returns the auth object as it is.
ExportTokenWholeAuth(a) == a

\* exportToken's return value.
ExportToken(a) ==
    [access_token |-> a.access_token, expires |-> a.expires,
     refresh_token |-> a.refresh_token]

\* A variant of the test that is met by a refresh token as well.
RevokeNeededAnyToken(a) ==
    TruthyStr(a.access_token) \/ TruthyStr(a.refresh_token)

\* revokeToken's test: this.auth.access_token
RevokeNeeded(a) == TruthyStr(a.access_token)

\* A variant of the clearing that keeps the CSRF state.
RevokeClearKeepsState(a) == [EmptyAuth EXCEPT !.state = a.state]

\* revokeToken after the await: this.auth = {}
RevokeClear(a) == EmptyAuth

\* A variant of the headers that always has an Authorization header.
CallHeadersAlwaysBearer(s, a) ==
    [h \in {"Content-Type", "trakt-api-version", "trakt-api-key",
            "User-Agent", "Authorization"} |->
        CASE h = "Content-Type" -> "application/json"
          [] h = "trakt-api-version" -> "2"
          [] h = "trakt-api-key" -> s.client_id
          [] h = "User-Agent" -> s.user_agent
          [] h = "Authorization" -> <<"Bearer", a.access_token>>]

\* _call's headers.
CallHeaders(s, a) ==
    LET names == {"Content-Type", "trakt-api-version", "trakt-api-key",
                  "User-Agent"}
                 \cup (IF TruthyStr(a.access_token)
                       THEN {"Authorization"} ELSE {})
    IN  [h \in names |->
            CASE h = "Content-Type" -> "application/json"
              [] h = "trakt-api-version" -> "2"
              [] h = "trakt-api-key" -> s.client_id
              [] h = "User-Agent" -> s.user_agent
              [] h = "Authorization" -> <<"Bearer", a.access_token>>]

\* _call's parameter params with its default value, {}.
ParamsOrDefault(given) == IF given = None THEN NoParams ELSE given[1]

\* A variant of the request that carries the parameters in the query
\* whatever the method.
CallRequestQueryOnly(s, a, method, path, params) ==
    [method |-> method, url |-> <<s.api_url, path>>,
     headers |-> CallHeaders(s, a),
     searchParams |-> Some(params),
     json |-> None]

\* _call's request.
CallRequest(s, a, method, path, params) ==
    [method |-> method, url |-> <<s.api_url, path>>,
     headers |-> CallHeaders(s, a),
     searchParams |-> IF method = "get" THEN Some(params) ELSE None,
     json |-> IF method # "get" THEN Some(params) ELSE None]

\* The statuses checkCodes' switch names, and the message of each (the
\* source writes an en dash where these strings have a hyphen).
DeviceStatuses == {400, 404, 409, 410, 418, 429}
DeviceMessage(status) ==
    CASE status = 400 -> "Pending - waiting for user authorization"
      [] status = 404 -> "Not Found - invalid device_code"
      [] status = 409 -> "Already Used - user already approved this code"
      [] status = 410 -> "Expired - the tokens have expired, restart the process"
      [] status = 418 -> "Denied - user explicitly denied this code"
      [] status = 429 -> "Slow Down - polling too quickly"

\* A variant of the catch block that reports a failure without a response
\* as status 400.
CheckCodesFailureDefault400(error) ==
    LET status == IF error.response THEN error.status ELSE 400
    IN  [status |-> status,
         message |-> IF status \in DeviceStatuses THEN DeviceMessage(status)
                     ELSE IF error.response THEN error.statusText
                     ELSE "Network or server error"]

\* checkCodes' catch block: error.response?.status ?? 500, then the switch.
CheckCodesFailure(error) ==
    LET status == IF error.response THEN error.status ELSE 500
    IN  [status |-> status,
         message |-> IF status \in DeviceStatuses THEN DeviceMessage(status)
                     ELSE IF error.response THEN error.statusText
                     ELSE "Network or server error"]

\* checkCodes' return after a successful answer.
CheckCodesSuccess(data) ==
    [status |-> 200, message |-> "Success", data |-> data]

----------------------------------------------------------------------------
(* State changes shared by the actions. *)

\* A call sends request req and awaits the answer.
Await(op, arg, req) ==
    /\ BagCardinality(inflight) < MaxInFlight
    /\ inflight' = inflight (+) SetToBag({op})
    /\ step' = Step(op, "call", "pending", arg, <<req>>, None, None)

\* A step that ends its call without awaiting anything.
Finish(op, outcome, arg, sent, value) ==
    step' = Step(op, "call", outcome, arg, sent, None, value)

\* The continuation of an in-flight call of method op ends the call.
Settle(op, outcome, answer, value) ==
    /\ BagIn(op, inflight)
    /\ inflight' = inflight (-) SetToBag({op})
    /\ step' = Step(op, "answer", outcome, None, <<>>, Some(answer), value)

----------------------------------------------------------------------------
(* The state after construction. *)

\* A variant of the constructor that starts without the auth object.
ConstructWithoutAuth(s, a) ==
    /\ options = s
    /\ settings = ConstructSettings(s)
    /\ auth = EmptyAuth
    /\ nStates = 0
    /\ inflight = EmptyBag
    /\ installed = Installed("constructor", a)
    /\ step = [op |-> "constructor", phase |-> "call",
               outcome |-> "returned", arg |-> <<s, a>>, sent |-> <<>>,
               answer |-> None, value |-> None, before |-> a]

\* new Trakt(s, a)
Construct(s, a) ==
    /\ options = s
    /\ settings = ConstructSettings(s)
    /\ auth = a
    /\ nStates = 0
    /\ inflight = EmptyBag
    /\ installed = Installed("constructor", a)
    /\ step = [op |-> "constructor", phase |-> "call",
               outcome |-> "returned", arg |-> <<s, a>>, sent |-> <<>>,
               answer |-> None, value |-> None, before |-> a]

Init == \E c \in CtorArgs : Construct(c[1], c[2])

\* The state after construction with the optional settings given.
InitConfigured == \E c \in ConfiguredCtorArgs : Construct(c[1], c[2])

----------------------------------------------------------------------------
(* The public methods, up to their first await. *)

GetUrl ==
    /\ nStates < MaxGetUrl
    /\ LET a == [auth EXCEPT !.state = RandomState(nStates + 1)]
       IN  /\ auth' = a
           /\ Finish("getUrl", "returned", None, <<>>,
                     AuthorizeUrl(settings, a))
    /\ nStates' = nStates + 1
    /\ UNCHANGED <<options, settings, inflight, installed>>

\* The states a caller may pass: none, the empty string, any state drawn
\* so far or passed to the constructor, and one the client never saw.
StateArgs ==
    {Undefined, "", "ctor-state", "forged"}
    \cup {RandomState(n) : n \in 1..nStates}

ExchangeCode(code, state) ==
    /\ IF CsrfRejects(state, auth)
       THEN /\ Finish("exchangeCode", "thrown", <<code, state>>, <<>>,
                      "Invalid CSRF (State)")
            /\ UNCHANGED inflight
       ELSE Await("exchangeCode", <<code, state>>,
                  PostRequest(settings, "/oauth/token",
                              ExchangeParams(settings, code)))
    /\ UNCHANGED <<options, settings, auth, nStates, installed>>

RefreshToken ==
    /\ Await("refreshToken", None,
             PostRequest(settings, "/oauth/token",
                         RefreshParams(settings, auth)))
    /\ UNCHANGED <<options, settings, auth, nStates, installed>>

\* A variant of importToken that builds the refresh request before the
\* assignments, from the tokens stored before the call.
ImportTokenRefreshesStored(token, now) ==
    LET a == ImportAssign(auth, token)
    IN  /\ auth' = a
        /\ installed' = Installed("importToken", a)
        /\ IF ImportNeedsRefresh(token, now)
           THEN Await("importToken", <<token, now>>,
                      PostRequest(settings, "/oauth/token",
                                  RefreshParams(settings, auth)))
           ELSE /\ Finish("importToken", "resolved", <<token, now>>, <<>>,
                          ExportToken(a))
                /\ UNCHANGED inflight
        /\ UNCHANGED <<options, settings, nStates>>

\* A variant of importToken that keeps the stored tokens while the
\* refresh of an expired token is pending.
ImportTokenAssignsUnlessExpired(token, now) ==
    LET a == ImportAssign(auth, token)
    IN  /\ IF ImportNeedsRefresh(token, now)
           THEN /\ auth' = auth
                /\ installed' = installed
                /\ Await("importToken", <<token, now>>,
                         PostRequest(settings, "/oauth/token",
                                     RefreshParams(settings, a)))
           ELSE /\ auth' = a
                /\ installed' = Installed("importToken", a)
                /\ Finish("importToken", "resolved", <<token, now>>, <<>>,
                          ExportToken(a))
                /\ UNCHANGED inflight
        /\ UNCHANGED <<options, settings, nStates>>

ImportToken(token, now) ==
    LET a == ImportAssign(auth, token)
    IN  /\ auth' = a
        /\ installed' = Installed("importToken", a)
        /\ IF ImportNeedsRefresh(token, now)
           THEN Await("importToken", <<token, now>>,
                      PostRequest(settings, "/oauth/token",
                                  RefreshParams(settings, a)))
           ELSE /\ Finish("importToken", "resolved", <<token, now>>, <<>>,
                          ExportToken(a))
                /\ UNCHANGED inflight
        /\ UNCHANGED <<options, settings, nStates>>

DoExportToken ==
    /\ Finish("exportToken", "returned", None, <<>>, ExportToken(auth))
    /\ UNCHANGED <<options, settings, auth, nStates, inflight, installed>>

RevokeToken ==
    /\ IF RevokeNeeded(auth)
       THEN Await("revokeToken", None,
                  PostRequest(settings, "/oauth/revoke",
                              RevokeParams(settings, auth)))
       ELSE /\ Finish("revokeToken", "resolved", None, <<>>, None)
            /\ UNCHANGED inflight
    /\ UNCHANGED <<options, settings, auth, nStates, installed>>

GetCodes ==
    /\ Finish("getCodes", "pending", None,
              <<PostRequest(settings, "/oauth/device/code",
                            [client_id |-> settings.client_id])>>, None)
    /\ UNCHANGED <<options, settings, auth, nStates, inflight, installed>>

CheckCodes(code) ==
    /\ Await("checkCodes", <<code>>,
             PostRequest(settings, "/oauth/device/token",
                         [code |-> code, client_id |-> settings.client_id,
                          client_secret |-> settings.client_secret]))
    /\ UNCHANGED <<options, settings, auth, nStates, installed>>

\* A resource method: every one of them is a call of _call, with or
\* without the argument params.
ApiCall(method, path, given) ==
    /\ Finish("_call", "pending", <<method, path, given>>,
              <<CallRequest(settings, auth, method, path,
                            ParamsOrDefault(given))>>, None)
    /\ UNCHANGED <<options, settings, auth, nStates, inflight, installed>>

----------------------------------------------------------------------------
(* The continuations, run when the server's answer arrives. *)

TokenOps == {"exchangeCode", "refreshToken", "importToken"}

\* _exchange after a successful answer, then the caller's continuation:
\* importToken resolves with exportToken(), the others with the response.
TokenAnswerOk(op, response) ==
    /\ op \in TokenOps
    /\ LET a == ExchangeStore(auth, response)
       IN  /\ auth' = a
           /\ installed' = Installed("response", a)
           /\ Settle(op, "resolved", Ok(response),
                     IF op = "importToken" THEN ExportToken(a) ELSE response)
    /\ UNCHANGED <<options, settings, nStates>>

\* A variant in which a failed token request clears the stored tokens.
TokenAnswerFailClears(op, error) ==
    /\ op \in TokenOps
    /\ Settle(op, "rejected", Failed(error), error)
    /\ auth' = [EmptyAuth EXCEPT !.state = auth.state]
    /\ UNCHANGED <<options, settings, nStates, installed>>

\* The await in _exchange throws: nothing after it runs.
TokenAnswerFail(op, error) ==
    /\ op \in TokenOps
    /\ Settle(op, "rejected", Failed(error), error)
    /\ UNCHANGED <<options, settings, auth, nStates, installed>>

\* revokeToken after _revoke returned.
RevokeAnswerOk ==
    /\ auth' = RevokeClear(auth)
    /\ Settle("revokeToken", "resolved", Ok(None), None)
    /\ installed' = [installed EXCEPT !.cleared = TRUE]
    /\ UNCHANGED <<options, settings, nStates>>

\* A variant in which the clearing runs also when _revoke throws.
RevokeAnswerFailClears(error) ==
    /\ Settle("revokeToken", "rejected", Failed(error), error)
    /\ auth' = EmptyAuth
    /\ UNCHANGED <<options, settings, nStates, installed>>

\* The await in _revoke throws.
RevokeAnswerFail(error) ==
    /\ Settle("revokeToken", "rejected", Failed(error), error)
    /\ UNCHANGED <<options, settings, auth, nStates, installed>>

\* A variant of checkCodes that stores the tokens of a successful answer.
DeviceAnswerOkStores(response) ==
    /\ Settle("checkCodes", "resolved", Ok(response),
              CheckCodesSuccess(response))
    /\ auth' = ExchangeStore(auth, response)
    /\ UNCHANGED <<options, settings, nStates, installed>>

\* checkCodes after a successful answer.
DeviceAnswerOk(response) ==
    /\ Settle("checkCodes", "resolved", Ok(response),
              CheckCodesSuccess(response))
    /\ UNCHANGED <<options, settings, auth, nStates, installed>>

\* checkCodes' catch block.
DeviceAnswerFail(error) ==
    /\ Settle("checkCodes", "resolved", Failed(error),
              CheckCodesFailure(error))
    /\ UNCHANGED <<options, settings, auth, nStates, installed>>

----------------------------------------------------------------------------

Next ==
    \/ GetUrl
    \/ \E code \in Codes, state \in StateArgs : ExchangeCode(code, state)
    \/ RefreshToken
    \/ \E token \in ImportTokens, now \in Clock : ImportToken(token, now)
    \/ DoExportToken
    \/ RevokeToken
    \/ GetCodes
    \/ \E code \in Codes : CheckCodes(code)
    \/ \E c \in ApiCalls, p \in Paths : ApiCall(c[1], p, c[2])
    \/ \E op \in TokenOps, r \in TokenResponses : TokenAnswerOk(op, r)
    \/ \E op \in TokenOps, e \in TokenFailures : TokenAnswerFail(op, e)
    \/ RevokeAnswerOk
    \/ \E e \in TokenFailures : RevokeAnswerFail(e)
    \/ \E r \in TokenResponses : DeviceAnswerOk(r)
    \/ \E e \in DeviceFailures : DeviceAnswerFail(e)

Spec == Init /\ [][Next]_vars

\* The same client, constructed with the optional settings given.
SpecConfigured == InitConfigured /\ [][Next]_vars

----------------------------------------------------------------------------
(* The resource modules.  Each method builds a path and a parameter object *)
(* and hands them to _call; a path is the pieces of its template string.   *)

\* A resource method's call: what it was given and the request of _call.
Resource(op, arg, method, path, given) ==
    Finish(op, "pending", arg,
           <<CallRequest(settings, auth, method, path,
                         ParamsOrDefault(given))>>, None)

\* Arguments of search.text: year, page and limit left out, 0, or set.
SearchTexts ==
    [query : {"tron", ""}, type : {"movie", "show"},
     year : {NoNumber, 0, 2008}, page : {NoNumber, 0, 2},
     limit : {NoNumber, 0, 20}]

\* A variant of search.text's parameter object that holds every filter
\* the caller gave, 0 included.
SearchTextParamsGiven(p) ==
    LET names == {"query"}
                 \cup {k \in {"year", "page", "limit"} : p[k] # NoNumber}
    IN  [k \in names |-> p[k]]

\* search.text's parameter object: query, and each filter that is truthy.
SearchTextParams(p) ==
    LET names == {"query"}
                 \cup {k \in {"year", "page", "limit"} : TruthyNum(p[k])}
    IN  [k \in names |-> p[k]]

SearchText(p) ==
    /\ Resource("search.text", <<p>>, "get", <<"/search/", p.type>>,
                Some(SearchTextParams(p)))
    /\ UNCHANGED <<options, settings, auth, nStates, inflight, installed>>

\* The calendars.my.* and calendars.all.* methods, by the head of their
\* path.
CalendarEndpoints ==
    {"/calendars/my/shows/", "/calendars/my/shows/new/",
     "/calendars/my/shows/premieres/", "/calendars/my/shows/finales/",
     "/calendars/my/movies/", "/calendars/my/streaming/",
     "/calendars/my/dvd/",
     "/calendars/all/shows/", "/calendars/all/shows/new/",
     "/calendars/all/shows/premieres/", "/calendars/all/shows/finale/",
     "/calendars/all/movies/", "/calendars/all/streaming/",
     "/calendars/all/dvd/"}

\* Arguments of a calendar method: none, or an object whose startDate and
\* days are each left out or set (the empty string and 0 included).
CalendarArgs ==
    {None}
    \cup {Some(c) : c \in [startDate : {Undefined, "", "2014-09-01"},
                           days : {NoNumber, 0, 3}]}

\* Values of new Date(), as getFullYear(), getMonth() and getDate() read
\* them in local time.
Dates ==
    {[year |-> 2024, month |-> 0, date |-> 5],
     [year |-> 2025, month |-> 10, date |-> 30]}

\* s.padStart(2, "0") for a non-empty s
PadStart2(s) == IF Len(s) < 2 THEN "0" \o s ELSE s

formatDate(date) ==
    ToString(date.year) \o "-" \o PadStart2(ToString(date.month + 1))
    \o "-" \o PadStart2(ToString(date.date))

\* params?.startDate ?? formatDate(new Date())
StartDateOrToday(given, now) ==
    IF given = None \/ given[1].startDate = Undefined
    THEN formatDate(now) ELSE given[1].startDate

\* A variant that takes the default also for days: 0, as || does.
DaysOrDefaultTruthy(given) ==
    IF given = None \/ ~TruthyNum(given[1].days) THEN 7 ELSE given[1].days

\* params?.days ?? 7
DaysOrDefault(given) ==
    IF given = None \/ given[1].days = NoNumber THEN 7 ELSE given[1].days

Calendar(endpoint, given, now) ==
    /\ Resource("calendars", <<endpoint, given, now>>, "get",
                <<endpoint, StartDateOrToday(given, now), "/",
                  ToString(DaysOrDefault(given))>>,
                None)
    /\ UNCHANGED <<options, settings, auth, nStates, inflight, installed>>

\* Arguments of shows.season and shows.episodes.
ShowIds == {"1390", "breaking-bad"}
Seasons == {0, 1}
Translations == {Undefined, "es"}

SeasonPath(id, season) ==
    <<"/shows/", id, "/seasons/", ToString(season), "/info">>

EpisodesPath(id, season) ==
    <<"/shows/", id, "/seasons/", ToString(season)>>

\* shows.season({id, season})
ShowsSeason(id, season) ==
    /\ Resource("shows.season", [id |-> id, season |-> season], "get",
                SeasonPath(id, season), None)
    /\ UNCHANGED <<options, settings, auth, nStates, inflight, installed>>

\* shows.episodes({id, season, translations})
ShowsEpisodes(id, season, translations) ==
    /\ Resource("shows.episodes",
                [id |-> id, season |-> season,
                 translations |-> translations],
                "get", EpisodesPath(id, season),
                Some([k \in {"translations"} |-> translations]))
    /\ UNCHANGED <<options, settings, auth, nStates, inflight, installed>>

\* Arguments of users.history: the optional ones left out or given.
UserHistories ==
    [id : {"sean"}, type : {"movies", Undefined},
     item_id : {Undefined, "123"},
     start_at : {Undefined, "2023-01-01T00:00:00.000Z"},
     end_at : {Undefined, "2023-12-31T23:59:59.999Z"}]

\* ${v} in a template string: undefined reads "undefined".
TemplateValue(v) == IF v = Undefined THEN "undefined" ELSE v

\* users.history's path, the query it ends in included.
HistoryPath(p) ==
    <<"/users/", p.id, "/history">>
    \o (IF TruthyStr(p.type) THEN <<"/", p.type>> ELSE <<>>)
    \o (IF TruthyStr(p.item_id) THEN <<"/", p.item_id>> ELSE <<>>)
    \o <<"?", "start_at", "=", TemplateValue(p.start_at),
         "&", "end_at", "=", TemplateValue(p.end_at)>>

\* users.history(params)
UsersHistory(p) ==
    /\ Resource("users.history", <<p>>, "get", HistoryPath(p), None)
    /\ UNCHANGED <<options, settings, auth, nStates, inflight, installed>>

NextResources ==
    \/ \E p \in SearchTexts : SearchText(p)
    \/ \E p \in UserHistories : UsersHistory(p)
    \/ \E id \in ShowIds, season \in Seasons : ShowsSeason(id, season)
    \/ \E id \in ShowIds, season \in Seasons, tr \in Translations :
          ShowsEpisodes(id, season, tr)
    \/ \E e \in CalendarEndpoints, c \in CalendarArgs, now \in Dates :
          Calendar(e, c, now)

\* The client's resource methods alone.
SpecResources == Init /\ [][NextResources]_vars

----------------------------------------------------------------------------
(* Properties. *)

\* The step is a call of method op (not a continuation).
IsCall(op) == step.op = op /\ step.phase = "call"
\* The step is the continuation of a call of method op.
IsAnswer(op) == step.op = op /\ step.phase = "answer"

\* The state of the most recent getUrl call, if there was one.
MostRecentUrlState == RandomState(nStates)

\* Reading a URL as its receiver does (URL.searchParams): the query runs
\* from the first "?" to the first "#"; "&" separates its parameters; a
\* parameter's name ends at its first "=".
RECURSIVE Join(_)
Join(pieces) ==
    IF pieces = <<>> THEN "" ELSE Head(pieces) \o Join(Tail(pieces))

\* The least index from i on at which seq holds one of the pieces in
\* stops, or Len(seq) + 1.
IndexFrom(seq, i, stops) ==
    LET hits == {k \in i..Len(seq) : seq[k] \in stops}
    IN  IF hits = {} THEN Len(seq) + 1
        ELSE CHOOSE k \in hits : \A j \in hits : k <= j

UrlBeforeQuery(url) == SubSeq(url, 1, IndexFrom(url, 1, {"?", "#"}) - 1)
UrlQuery(url) ==
    LET start == IndexFrom(url, 1, {"?"})
    IN  SubSeq(url, start + 1, IndexFrom(url, start, {"#"}) - 1)

\* Where the query's first parameter called name starts, or 0.
ParamAt(query, name) ==
    LET hits == {i \in 1..(Len(query) - 1) :
                    /\ query[i] = name
                    /\ query[i + 1] = "="
                    /\ (i = 1 \/ query[i - 1] = "&")}
    IN  IF hits = {} THEN 0 ELSE CHOOSE i \in hits : \A j \in hits : i <= j

\* The value of the query's first parameter called name.
QueryValue(url, name) ==
    LET query == UrlQuery(url)
        at == ParamAt(query, name)
    IN  IF at = 0 THEN Undefined
        ELSE Join(SubSeq(query, at + 2, IndexFrom(query, at + 2, {"&"}) - 1))

\* C1: exchangeCode(code, state) with a non-empty state that differs from
\* the stored CSRF state (also when none is stored) throws
\* 'Invalid CSRF (State)', sends no request and leaves the stored
\* access_token, refresh_token, expires and state as they were.
C1_CsrfMismatchThrows ==
    (/\ IsCall("exchangeCode")
     /\ step.arg[2] \notin {Undefined, ""}
     /\ step.arg[2] # step.before.state)
    => /\ step.outcome = "thrown"
       /\ step.value = "Invalid CSRF (State)"
       /\ step.sent = <<>>
       /\ auth = step.before

\* C1's case: a mismatching state is passed while no state is stored and
\* tokens are.
C1_Witness ==
    /\ IsCall("exchangeCode")
    /\ step.arg[2] = "forged"
    /\ step.before.state = Undefined
    /\ step.before.access_token # Undefined
    /\ step.outcome = "thrown"

\* C2 as stated, for a client on which getUrl was called: after any
\* operations, exchangeCode(code, s) with a non-empty s passes the CSRF
\* check when s is the state of the most recent getUrl call, and fails for
\* every other s.
C2_PassesIffMostRecentUrlState ==
    (IsCall("exchangeCode") /\ step.arg[2] \notin {Undefined, ""}
     /\ nStates > 0)
    => (step.outcome # "thrown" <=> step.arg[2] = MostRecentUrlState)

\* C2 amended: exchangeCode(code, s) with a non-empty s passes exactly when
\* s is the stored state.  Once getUrl was called the stored state is that
\* of the most recent getUrl call or, after a revokeToken call resolved
\* that had found an access token, none (then every s fails); before any
\* getUrl call it is the state of the constructor's auth object, or none.
\* A stored state goes away only by that revokeToken, and a replaced one
\* never passes.
C2_PassesIffStoredState ==
    /\ (IsCall("exchangeCode") /\ step.arg[2] \notin {Undefined, ""})
       => /\ step.outcome # "thrown" <=> step.arg[2] = step.before.state
          /\ (nStates > 0 /\ step.outcome # "thrown")
             => step.arg[2] = MostRecentUrlState
          /\ \A n \in 1..(nStates - 1) :
                step.arg[2] = RandomState(n) => step.outcome = "thrown"
    /\ nStates > 0 => auth.state \in {MostRecentUrlState, Undefined}
    /\ (auth.state = Undefined /\ step.before.state # Undefined)
       => (IsAnswer("revokeToken") /\ step.outcome = "resolved")
    /\ (IsAnswer("revokeToken") /\ step.outcome = "resolved")
       => auth.state = Undefined

\* C2's case: the state of the most recent getUrl call is passed after a
\* revokeToken resolved, and fails.
C2_Witness ==
    /\ IsCall("exchangeCode")
    /\ nStates > 0
    /\ step.arg[2] = MostRecentUrlState
    /\ installed.cleared
    /\ step.outcome = "thrown"

\* C3: a successful answer to the token request of exchangeCode or
\* refreshToken stores the answer's access_token and refresh_token and
\* expires = (created_at + expires_in) * 1000, and the call resolves with
\* the answer as it came.
C3_TokenResponseStored ==
    \A op \in {"exchangeCode", "refreshToken"} :
        (IsAnswer(op) /\ step.answer[1].ok)
        => LET response == step.answer[1].data
           IN  /\ auth.access_token = response.access_token
               /\ auth.refresh_token = response.refresh_token
               /\ auth.expires
                    = 1000 * response.created_at + 1000 * response.expires_in
               /\ step.outcome = "resolved"
               /\ step.value = response

\* C3's case: a refreshToken call got its answer while other tokens were
\* stored.
C3_Witness ==
    /\ IsAnswer("refreshToken")
    /\ step.answer[1].ok
    /\ step.before.access_token = "a1"
    /\ auth.expires = 3000

\* C4: whenever a revokeToken call resolves, the client holds no access
\* token and no refresh token: exportToken() returns both undefined.
C4_RevokeResolvedClearsTokens ==
    (step.op = "revokeToken" /\ step.outcome = "resolved")
    => /\ ExportToken(auth).access_token = Undefined
       /\ ExportToken(auth).refresh_token = Undefined

\* C5: importToken(t) with t.expires absent or not earlier than the clock
\* resolves at once, sends no request, resolves to t's access_token,
\* refresh_token and expires, and exportToken() then returns the same.
C5_ImportValidTokenIsIdentity ==
    (/\ IsCall("importToken")
     /\ (step.arg[1].expires = NoNumber \/ step.arg[1].expires >= step.arg[2]))
    => LET t == step.arg[1]
       IN  /\ step.outcome = "resolved"
           /\ step.sent = <<>>
           /\ step.value.access_token = t.access_token
           /\ step.value.refresh_token = t.refresh_token
           /\ step.value.expires = t.expires
           /\ ExportToken(auth) = step.value

\* C5's case: a token that expires at this very moment is imported over
\* other stored tokens.
C5_Witness ==
    /\ IsCall("importToken")
    /\ step.arg[1].expires = step.arg[2]
    /\ step.before.access_token = "A1"
    /\ step.outcome = "resolved"
    /\ auth.access_token = "a1"

\* C6: importToken(t) sends a request exactly when t.expires is set, not 0
\* and earlier than the clock: then it sends one refresh request, which
\* carries t.refresh_token, stays pending until the answer, and resolves
\* with the tokens of the answer.
C6_ImportRefreshesExpired ==
    /\ IsCall("importToken")
       => LET t == step.arg[1]
              expired == t.expires \notin {NoNumber, 0} /\ t.expires < step.arg[2]
          IN  /\ expired <=> step.sent # <<>>
              /\ expired <=> step.outcome = "pending"
              /\ ~expired <=> step.outcome = "resolved"
              /\ expired
                 => /\ Len(step.sent) = 1
                    /\ step.sent[1].method = "post"
                    /\ step.sent[1].url[2] = "/oauth/token"
                    /\ step.sent[1].json.grant_type = "refresh_token"
                    /\ step.sent[1].json.refresh_token = t.refresh_token
    /\ IsAnswer("importToken")
       => /\ step.sent = <<>>
          /\ step.answer[1].ok
             => LET response == step.answer[1].data
                IN  /\ step.outcome = "resolved"
                    /\ step.value.access_token = response.access_token
                    /\ step.value.refresh_token = response.refresh_token
                    /\ step.value.expires
                         = 1000 * (response.created_at + response.expires_in)
          /\ ~step.answer[1].ok => step.outcome = "rejected"

\* C6's case: an expired token is imported while another refresh token is
\* stored.
C6_Witness ==
    /\ IsCall("importToken")
    /\ step.before.refresh_token = "R1"
    /\ step.arg[1].expires = 1
    /\ step.arg[2] = 2
    /\ step.outcome = "pending"

\* C7: when the request of an exchangeCode, refreshToken or revokeToken
\* call fails, the call rejects with that failure, the step sends nothing,
\* and the stored tokens are those found.
C7_FailedRequestRejects ==
    \A op \in {"exchangeCode", "refreshToken", "revokeToken"} :
        (IsAnswer(op) /\ ~step.answer[1].ok)
        => /\ step.outcome = "rejected"
           /\ step.value = step.answer[1].data
           /\ step.sent = <<>>
           /\ auth.access_token = step.before.access_token
           /\ auth.refresh_token = step.before.refresh_token
           /\ auth.expires = step.before.expires

\* C7's case: the revoke request fails while tokens are stored.
C7_Witness ==
    /\ IsAnswer("revokeToken")
    /\ ~step.answer[1].ok
    /\ step.before.access_token # Undefined
    /\ step.before.refresh_token # Undefined

\* C8: checkCodes never rejects: a successful answer gives status 200,
\* 'Success' and the answer; an HTTP error gives its status with the fixed
\* message for 400, 404, 409, 410, 418 and 429 and the status text for any
\* other status; a failure without a response gives status 500.
C8_CheckCodesNeverRejects ==
    /\ IsCall("checkCodes") => step.outcome = "pending"
    /\ IsAnswer("checkCodes")
       => /\ step.outcome = "resolved"
          /\ step.answer[1].ok
             => step.value = [status |-> 200, message |-> "Success",
                              data |-> step.answer[1].data]
          /\ ~step.answer[1].ok
             => LET error == step.answer[1].data
                IN  /\ error.response
                       => /\ step.value.status = error.status
                          /\ error.status \in {400, 404, 409, 410, 418, 429}
                             => step.value.message = DeviceMessage(error.status)
                          /\ error.status \notin {400, 404, 409, 410, 418, 429}
                             => step.value.message = error.statusText
                    /\ ~error.response => step.value.status = 500

\* C8's case: the device token request fails without a response.
C8_Witness ==
    /\ IsAnswer("checkCodes")
    /\ ~step.answer[1].ok
    /\ ~step.answer[1].data.response
    /\ step.value.status = 500

\* The step is a refreshToken() call: the public one, or the one that
\* importToken makes.
IsRefreshCall ==
    \/ IsCall("refreshToken")
    \/ IsCall("importToken") /\ step.outcome = "pending"

\* C9 as stated: each refreshToken() call sends one request with grant_type
\* 'refresh_token' that carries the stored refresh token, which is the one
\* written by the latest token-installing step.
C9_RefreshSendsLastInstalled ==
    IsRefreshCall
    => /\ Len(step.sent) = 1
       /\ step.sent[1].json.grant_type = "refresh_token"
       /\ step.sent[1].json.refresh_token = auth.refresh_token
       /\ step.sent[1].json.refresh_token = installed.refresh_token

\* C9 amended: each refreshToken() call sends one request with grant_type
\* 'refresh_token' that carries the stored refresh token, which is the one
\* written by the latest token-installing step unless a revokeToken has
\* cleared the auth since; then none is stored and none is sent.
C9_RefreshSendsStored ==
    /\ auth.refresh_token
         = IF installed.cleared THEN Undefined ELSE installed.refresh_token
    /\ IsRefreshCall
       => /\ Len(step.sent) = 1
          /\ step.sent[1].url[2] = "/oauth/token"
          /\ step.sent[1].json.grant_type = "refresh_token"
          /\ step.sent[1].json.refresh_token = auth.refresh_token

\* C9's case: refreshToken() is called after a token response replaced an
\* imported refresh token.
C9_Witness ==
    /\ IsCall("refreshToken")
    /\ installed.source = "response"
    /\ ~installed.cleared
    /\ step.sent[1].json.refresh_token = "R2"

\* C10: every request of _call carries trakt-api-version '2' and
\* trakt-api-key = client_id, and carries Authorization: Bearer <token>
\* exactly when an access token is stored, with the stored token; after a
\* revokeToken cleared the auth and before tokens are installed again it
\* carries no Authorization header.
C10_CallHeaders ==
    IsCall("_call")
    => /\ Len(step.sent) = 1
       /\ LET h == step.sent[1].headers
          IN  /\ h["trakt-api-version"] = "2"
              /\ h["trakt-api-key"] = settings.client_id
              /\ "Authorization" \in DOMAIN h <=> auth.access_token # Undefined
              /\ "Authorization" \in DOMAIN h
                 => h["Authorization"] = <<"Bearer", auth.access_token>>
              /\ installed.cleared => "Authorization" \notin DOMAIN h

\* C10's case: a resource request is sent after a revokeToken cleared
\* stored tokens.
C10_Witness ==
    /\ IsCall("_call")
    /\ installed.cleared
    /\ installed.access_token # Undefined
    /\ "Authorization" \notin DOMAIN step.sent[1].headers

\* The redirect URI the client was configured with.
ConfiguredRedirectUri ==
    IF options.redirect_uri = Undefined THEN DefaultRedirectUri
    ELSE options.redirect_uri

\* C11: getUrl() returns a URL on https://trakt.tv/oauth/authorize whose
\* query holds response_type = code, client_id = the configured client_id,
\* redirect_uri = the configured redirect URI (the out-of-band URN when
\* none was configured) and state = the state this call stored; and the
\* token requests of exchangeCode and refreshToken send the same
\* redirect_uri.
C11_AuthorizeUrlQuery ==
    /\ IsCall("getUrl")
       => LET url == step.value
          IN  /\ UrlBeforeQuery(url)
                   = <<"https://", "trakt", ".", "tv", "/oauth/authorize">>
              /\ QueryValue(url, "response_type") = "code"
              /\ QueryValue(url, "client_id") = options.client_id
              /\ QueryValue(url, "redirect_uri") = ConfiguredRedirectUri
              /\ QueryValue(url, "state") = auth.state
              /\ auth.state = MostRecentUrlState
    /\ (IsCall("exchangeCode") \/ IsCall("refreshToken"))
       => \A i \in 1..Len(step.sent) :
             step.sent[i].json.redirect_uri = ConfiguredRedirectUri

\* C12: exchangeCode(code) without a state, or with the empty string,
\* makes no CSRF check: it throws nothing and sends the token request for
\* the code, also when getUrl has stored a state.
C12_StateIsOptional ==
    (IsCall("exchangeCode") /\ step.arg[2] \in {Undefined, ""})
    => /\ step.outcome = "pending"
       /\ Len(step.sent) = 1
       /\ step.sent[1].method = "post"
       /\ step.sent[1].url[2] = "/oauth/token"
       /\ step.sent[1].json.grant_type = "authorization_code"
       /\ step.sent[1].json.code = step.arg[1]
       /\ auth = step.before

\* C12's case: exchangeCode is called with the empty string while the
\* state of a getUrl call is stored.
C12_Witness ==
    /\ IsCall("exchangeCode")
    /\ step.arg[2] = ""
    /\ nStates > 0
    /\ step.before.state = MostRecentUrlState
    /\ step.outcome = "pending"

\* C13: exportToken() returns the stored access_token, expires and
\* refresh_token and nothing else (the CSRF state never); it sends no
\* request and changes nothing in the client; two exportToken() calls with
\* nothing between them return equal values.
C13_ExportTokenReadsOnly ==
    /\ [](IsCall("exportToken")
          => /\ DOMAIN step.value
                  = {"access_token", "expires", "refresh_token"}
             /\ step.value.access_token = auth.access_token
             /\ step.value.expires = auth.expires
             /\ step.value.refresh_token = auth.refresh_token
             /\ step.outcome = "returned"
             /\ step.sent = <<>>)
    /\ [][(step'.op = "exportToken" /\ step'.phase = "call")
           => /\ UNCHANGED <<settings, auth, nStates, inflight>>
              /\ IsCall("exportToken") => step'.value = step.value]_vars

\* C13's case: exportToken() is called while tokens and a CSRF state are
\* stored and a request is in flight.
C13_Witness ==
    /\ IsCall("exportToken")
    /\ auth.state = "state1"
    /\ auth.access_token = "A1"
    /\ inflight # EmptyBag

\* C14: construction with an auth object sends no request and stores the
\* passed access_token, refresh_token and expires as they are, also when
\* expires lies in the past; exportToken() called as the first operation
\* returns exactly them and sends nothing.
C14_ConstructorRestoresSession ==
    /\ [](step.op = "constructor"
          => /\ step.sent = <<>>
             /\ inflight = EmptyBag
             /\ auth.access_token = step.arg[2].access_token
             /\ auth.refresh_token = step.arg[2].refresh_token
             /\ auth.expires = step.arg[2].expires)
    /\ [][(step.op = "constructor" /\ step'.op = "exportToken")
           => /\ step'.value.access_token = step.arg[2].access_token
              /\ step'.value.refresh_token = step.arg[2].refresh_token
              /\ step'.value.expires = step.arg[2].expires
              /\ step'.sent = <<>>
              /\ inflight' = EmptyBag]_vars

\* C14's case: exportToken() returns the session the constructor was
\* given, whose expires is earlier than the clock's last value, and no
\* request has been sent.
C14_Witness ==
    /\ IsCall("exportToken")
    /\ installed.source = "constructor"
    /\ ~installed.cleared
    /\ nStates = 0
    /\ inflight = EmptyBag
    /\ step.value = [access_token |-> "a0", expires |-> 1,
                     refresh_token |-> "r0"]
    /\ \E now \in Clock : ImportNeedsRefresh(step.value, now)

\* C15: a client constructed with settings.api_url = U sends every
\* request, resource and OAuth alike, to U followed by the path, and a
\* client constructed without api_url sends them to https://api.trakt.tv.
C15_ApiUrlOverrides ==
    \A i \in 1..Len(step.sent) :
        step.sent[i].url[1]
          = IF options.api_url # NoUrl THEN options.api_url
            ELSE DefaultApiUrl

\* C16: _call sends its params as the query, with no body, when the
\* method is get, and as the JSON body, with no query, when it is post,
\* put or delete; a call without params sends the empty object in that
\* place.
C16_ParamsPlacement ==
    IsCall("_call")
    => LET method == step.arg[1]
           params == IF step.arg[3] = None THEN NoParams ELSE step.arg[3][1]
           request == step.sent[1]
       IN  /\ Len(step.sent) = 1
           /\ request.method = method
           /\ method = "get"
              => request.searchParams = <<params>> /\ request.json = <<>>
           /\ method \in {"post", "put", "delete"}
              => request.json = <<params>> /\ request.searchParams = <<>>

\* C16's case: a put without params sends {} as its body and no query.
C16_Witness ==
    /\ IsCall("_call")
    /\ step.arg[1] = "put"
    /\ step.arg[3] = None
    /\ step.sent[1].json = <<NoParams>>
    /\ step.sent[1].searchParams = <<>>

\* C17: search.text({query, type, year, page, limit}) sends GET
\* /search/{type} with the query parameter query always there and equal
\* to the given query, with year, page and limit there exactly when the
\* caller gave a non-zero value, and with the type in the path, never in
\* the query.
C17_SearchTextRequest ==
    IsCall("search.text")
    => LET p == step.arg[1]
           request == step.sent[1]
           query == request.searchParams[1]
       IN  /\ Len(step.sent) = 1
           /\ request.method = "get"
           /\ request.url[2] = <<"/search/", p.type>>
           /\ request.json = <<>>
           /\ "query" \in DOMAIN query
           /\ query["query"] = p.query
           /\ \A k \in {"year", "page", "limit"} :
                 /\ k \in DOMAIN query <=> p[k] \notin {NoNumber, 0}
                 /\ k \in DOMAIN query => query[k] = p[k]
           /\ "type" \notin DOMAIN query

\* C17's case: a search with an empty query, year 0 and a limit.
C17_Witness ==
    /\ IsCall("search.text")
    /\ step.arg[1].query = ""
    /\ step.arg[1].year = 0
    /\ step.arg[1].limit = 20
    /\ DOMAIN step.sent[1].searchParams[1] = {"query", "limit"}

\* C18: every calendars.my.* and calendars.all.* method requests a path
\* that ends in /{startDate}/{days}: startDate is the caller's value or,
\* only when left out, the local date as YYYY-MM-DD with month and day
\* zero-padded; days is the caller's value or, only when left out, 7; a
\* days of 0 is sent as 0.
C18_CalendarPath ==
    IsCall("calendars")
    => LET endpoint == step.arg[1]
           given == step.arg[2]
           now == step.arg[3]
           path == step.sent[1].url[2]
           TwoDigits(n) == IF n < 10 THEN "0" \o ToString(n) ELSE ToString(n)
           today == ToString(now.year) \o "-" \o TwoDigits(now.month + 1)
                    \o "-" \o TwoDigits(now.date)
           noStart == given = <<>> \/ given[1].startDate = Undefined
           noDays == given = <<>> \/ given[1].days = NoNumber
       IN  /\ step.sent[1].method = "get"
           /\ path = <<endpoint,
                       IF noStart THEN today ELSE given[1].startDate,
                       "/",
                       IF noDays THEN "7" ELSE ToString(given[1].days)>>
           /\ noStart => Len(path[2]) = 10
           /\ (~noDays /\ given[1].days = 0) => path[4] = "0"

\* C18's case: the all.shows.finale calendar is asked for 0 days from
\* today, which is the 5th of January.
C18_Witness ==
    /\ IsCall("calendars")
    /\ step.arg[1] = "/calendars/all/shows/finale/"
    /\ step.arg[2] = <<[startDate |-> Undefined, days |-> 0]>>
    /\ step.sent[1].url[2]
         = <<"/calendars/all/shows/finale/", "2024-01-05", "/", "0">>

\* The parameters of a query that have a value.
DefinedParams(query) ==
    [k \in {n \in DOMAIN query : query[n] # Undefined} |-> query[k]]

\* C19: shows.episodes({id, season}) issues the request that
\* shows.season({id, season}) issues: the same method, path and query
\* parameters.
C19_EpisodesIsSeason ==
    (IsCall("shows.episodes") /\ step.arg.translations = Undefined)
    => LET episodes == step.sent[1]
           season == CallRequest(settings, auth, "get",
                                 SeasonPath(step.arg.id, step.arg.season),
                                 NoParams)
       IN  /\ episodes.method = season.method
           /\ episodes.url = season.url
           /\ DefinedParams(episodes.searchParams[1])
                = DefinedParams(season.searchParams[1])

\* C20: once a revokeToken() call has resolved after revoking a stored
\* access token, the client holds no access token and no refresh token
\* until a token-installing operation is invoked; in particular, when the
\* next thing to happen is the arrival of the answer to an exchangeCode or
\* refreshToken request (which was therefore in flight when the revoke
\* completed), the client still holds neither.
C20_InFlightAnswerAfterRevoke ==
    [][(/\ IsAnswer("revokeToken")
        /\ step.outcome = "resolved"
        /\ auth.access_token = Undefined
        /\ auth.refresh_token = Undefined
        /\ step'.phase = "answer"
        /\ step'.op \in {"exchangeCode", "refreshToken"})
       => /\ auth'.access_token = Undefined
          /\ auth'.refresh_token = Undefined]_vars

\* C21: when two token requests of exchangeCode or refreshToken calls are
\* in flight together and their answers arrive one after the other, the
\* tokens stored then are those of the successful answer that arrived
\* last: a successful second answer is stored whatever the first was, and
\* a failed second answer leaves what the first left, the tokens of a
\* successful first answer included.
C21_LastSuccessfulAnswerWins ==
    [][(/\ step.phase = "answer"
        /\ step.op \in {"exchangeCode", "refreshToken"}
        /\ BagCardinality(inflight) = 1
        /\ step'.phase = "answer"
        /\ step'.op \in {"exchangeCode", "refreshToken"})
       => /\ step'.answer[1].ok
             => /\ auth'.access_token = step'.answer[1].data.access_token
                /\ auth'.refresh_token = step'.answer[1].data.refresh_token
                /\ auth'.expires
                     = 1000 * (step'.answer[1].data.created_at
                               + step'.answer[1].data.expires_in)
          /\ ~step'.answer[1].ok
             => /\ auth' = auth
                /\ step.answer[1].ok
                   => /\ auth'.access_token
                           = step.answer[1].data.access_token
                      /\ auth'.refresh_token
                           = step.answer[1].data.refresh_token]_vars

\* C21's case: the second of two answers is a failure and the tokens of
\* the first, a success, are still stored; nothing is in flight any more.
C21_Witness ==
    /\ IsAnswer("exchangeCode")
    /\ ~step.answer[1].ok
    /\ inflight = EmptyBag
    /\ installed.source = "response"
    /\ ~installed.cleared
    /\ step.before.access_token = "A2"
    /\ auth.access_token = "A2"
    /\ auth.refresh_token = "R2"

\* C22: in every reachable state the stored access_token, refresh_token
\* and expires stem from one source: all three are those that the latest
\* token-installing step wrote (the constructor's argument, an
\* importToken argument, a token response), or all three are absent after
\* a revoke.
C22_OneSource ==
    /\ installed.source \in {"constructor", "importToken", "response"}
    /\ IF installed.cleared
       THEN /\ auth.access_token = Undefined
            /\ auth.refresh_token = Undefined
            /\ auth.expires = NoNumber
       ELSE /\ auth.access_token = installed.access_token
            /\ auth.refresh_token = installed.refresh_token
            /\ auth.expires = installed.expires
    /\ (step.phase = "answer" /\ step.op \in TokenOps /\ step.answer[1].ok)
       => /\ installed.source = "response"
          /\ installed.access_token = step.answer[1].data.access_token
          /\ installed.refresh_token = step.answer[1].data.refresh_token
          /\ installed.expires
               = 1000 * (step.answer[1].data.created_at
                         + step.answer[1].data.expires_in)
    /\ IsCall("importToken")
       => /\ installed.source = "importToken"
          /\ installed.access_token = step.arg[1].access_token
          /\ installed.refresh_token = step.arg[1].refresh_token
          /\ installed.expires = step.arg[1].expires
    /\ step.op = "constructor"
       => /\ installed.source = "constructor"
          /\ installed.access_token = step.arg[2].access_token
          /\ installed.refresh_token = step.arg[2].refresh_token
          /\ installed.expires = step.arg[2].expires

\* C22's case: the answer to an exchangeCode request is stored over
\* imported tokens while a revokeToken request is in flight.
C22_Witness ==
    /\ IsAnswer("exchangeCode")
    /\ step.answer[1].ok
    /\ step.before.access_token = "a1"
    /\ step.before.refresh_token = "r1"
    /\ BagIn("revokeToken", inflight)
    /\ auth.refresh_token = "R1"

\* C23: checkCodes and getCodes never change the stored auth, whatever
\* the server answers: after any of their steps exportToken() returns what
\* it returned before, and a resource request carries the Authorization
\* header it carried before, or none.
C23_DeviceFlowKeepsAuth ==
    step.op \in {"checkCodes", "getCodes"}
    => /\ auth = step.before
       /\ ExportToken(auth) = ExportToken(step.before)
       /\ "Authorization" \in DOMAIN CallHeaders(settings, auth)
            <=> TruthyStr(step.before.access_token)
       /\ TruthyStr(step.before.access_token)
          => CallHeaders(settings, auth)["Authorization"]
               = <<"Bearer", step.before.access_token>>

\* C23's case: checkCodes returns status 200 with a token pair while
\* other tokens are stored.
C23_Witness ==
    /\ IsAnswer("checkCodes")
    /\ step.answer[1].ok
    /\ step.value.status = 200
    /\ step.value.data.access_token = "A1"
    /\ auth.access_token = "a1"
    /\ auth.refresh_token = "r1"

\* C24: importToken(t) with an expired t stores t's access_token,
\* refresh_token and expires before the refresh is answered; when the
\* refresh request then fails, importToken rejects with the failure and
\* the client holds t's three values, not those it held before the call.
C24_ImportFailureKeepsImported ==
    /\ []((IsCall("importToken") /\ step.outcome = "pending")
          => /\ auth.access_token = step.arg[1].access_token
             /\ auth.refresh_token = step.arg[1].refresh_token
             /\ auth.expires = step.arg[1].expires)
    /\ [][(/\ IsCall("importToken")
            /\ step.outcome = "pending"
            /\ step'.phase = "answer"
            /\ step'.op = "importToken"
            /\ ~step'.answer[1].ok)
           => /\ step'.outcome = "rejected"
              /\ step'.value = step'.answer[1].data
              /\ auth'.access_token = step.arg[1].access_token
              /\ auth'.refresh_token = step.arg[1].refresh_token
              /\ auth'.expires = step.arg[1].expires]_vars

\* C24's case: the refresh of an imported expired token has failed, no
\* other call is in flight, and the client holds the imported tokens.
C24_Witness ==
    /\ IsAnswer("importToken")
    /\ ~step.answer[1].ok
    /\ step.outcome = "rejected"
    /\ installed.source = "importToken"
    /\ ~installed.cleared
    /\ auth.access_token = "a1"
    /\ auth.expires = 1
    /\ auth.refresh_token = "r1"
    /\ inflight = EmptyBag

\* C25: the CSRF state is not single-use: the answer to an exchangeCode,
\* refreshToken or importToken request, and importToken itself, leave the
\* stored state as it was, and an exchangeCode call that passes the
\* stored state passes the CSRF check and sends its request, whatever was
\* exchanged before and whatever the code.
C25_StateSurvivesExchange ==
    /\ (step.op \in TokenOps /\ step.phase = "answer")
       => auth.state = step.before.state
    /\ IsCall("importToken") => auth.state = step.before.state
    /\ (/\ IsCall("exchangeCode")
        /\ step.arg[2] \notin {Undefined, ""}
        /\ step.arg[2] = step.before.state)
       => /\ step.outcome = "pending"
          /\ Len(step.sent) = 1
          /\ step.sent[1].json.code = step.arg[1]
          /\ auth.state = step.arg[2]

\* C25's case: after a token response was stored, exchangeCode is called
\* with another code and the state of the one getUrl call, and passes.
C25_Witness ==
    /\ IsCall("exchangeCode")
    /\ step.arg = <<"code2", "state1">>
    /\ nStates = 1
    /\ installed.source = "response"
    /\ ~installed.cleared
    /\ step.outcome = "pending"

\* C26: importToken(t) overwrites the stored access_token, refresh_token
\* and expires with t's, so that a field t lacks becomes undefined
\* whatever was stored, and leaves the stored CSRF state as it was.
C26_ImportOverwritesAll ==
    IsCall("importToken")
    => /\ auth.access_token = step.arg[1].access_token
       /\ auth.refresh_token = step.arg[1].refresh_token
       /\ auth.expires = step.arg[1].expires
       /\ auth.state = step.before.state

\* C26's case: a token without refresh_token and expires is imported
\* while a refresh token, an expiry and a CSRF state are stored.
C26_Witness ==
    /\ IsCall("importToken")
    /\ step.arg[1].refresh_token = Undefined
    /\ step.arg[1].expires = NoNumber
    /\ step.before.refresh_token = "R1"
    /\ step.before.expires = 2000
    /\ step.before.state = "state1"
    /\ auth.refresh_token = Undefined
    /\ auth.expires = NoNumber
    /\ auth.state = "state1"

C28_HistoryFiltersWhenGiven ==
    IsCall("users.history")
    => LET p == step.arg[1]
           path == step.sent[1].url[2]
       IN  /\ \A k \in {"start_at", "end_at"} :
                 /\ ParamAt(UrlQuery(path), k) # 0 <=> p[k] # Undefined
                 /\ p[k] # Undefined => QueryValue(path, k) = p[k]
                 /\ k \notin DOMAIN step.sent[1].searchParams[1]
           /\ \A i \in 1..Len(path) : path[i] # "undefined"

====
